---- MODULE Spec2Model ----
(***************************************************************************)
(* Model of src/model_evaluation.py: normalize_label and evaluate_model.   *)
(*                                                                         *)
(* Text is a sequence of one-character strings, so that lower(), strip()   *)
(* and the substring test "x in s" are computed, not assumed.  A cell of   *)
(* the data frame is a record: a missing value (NaN), a string or an       *)
(* integer.  A metric is either the string "N/A" or a number rounded to 3  *)
(* decimals, held as an integer count of thousandths (0.5 is 500).         *)
(***************************************************************************)
EXTENDS Integers, Sequences, FiniteSets, TLC

VARIABLES
    \* ---- normalize_label called on its own ----
    label,              \* the argument of normalize_label
    ret,                \* what normalize_label(label) returned
    ret2,               \* what normalize_label(ret) returned
    npc,                \* "idle" | "call" | "returned" | "again"
    \* ---- evaluate_model ----
    csv,                \* the frame pd.read_csv gives: [columns, rows]
    category_name, prediction_column, truth_column,
    pc,                 \* position in evaluate_model
    df,                 \* the working frame: a sequence of rows
    empty_cells, original_count, filtered_count, rows_removed,
    true_positives, true_negatives, false_positives, false_negatives, total,
    accuracy, ppv, npv, recall, f1_score,
    results             \* the returned dict

normVars == <<label, ret, ret2, npc>>
inVars   == <<csv, category_name, prediction_column, truth_column>>
tallyVars == <<true_positives, true_negatives, false_positives, false_negatives, total>>
metricVars == <<accuracy, ppv, npv, recall, f1_score>>
countVars == <<original_count, filtered_count, rows_removed>>
evalVars == <<inVars, pc, df, empty_cells, countVars, tallyVars, metricVars, results>>
vars == <<normVars, evalVars>>

(***************************************************************************)
(* Bounds of the model.                                                    *)
(***************************************************************************)
MaxLen == 4      \* every text over Alphabet up to this length is normalized
MaxInt == 11     \* integer cells 0..MaxInt are normalized
MaxRows == 2     \* every table of up to MaxRows rows over RowKinds is evaluated
MaxCount == 3    \* tables holding up to MaxCount rows of each confusion-matrix kind

(***************************************************************************)
(* Text.                                                                   *)
(***************************************************************************)
UpperLetters == <<"A","B","C","D","E","F","G","H","I","J","K","L","M",
                  "N","O","P","Q","R","S","T","U","V","W","X","Y","Z">>
LowerLetters == <<"a","b","c","d","e","f","g","h","i","j","k","l","m",
                  "n","o","p","q","r","s","t","u","v","w","x","y","z">>
Digits == <<"0","1","2","3","4","5","6","7","8","9">>
Whitespace == {" ", "\t", "\n"}

\* one character of str.lower()
lowerChar(c) ==
    IF \E i \in DOMAIN UpperLetters : UpperLetters[i] = c
      THEN LowerLetters[CHOOSE i \in DOMAIN UpperLetters : UpperLetters[i] = c]
      ELSE c

\* str.lower()
lower(s) == [i \in 1..Len(s) |-> lowerChar(s[i])]

RECURSIVE lstrip(_)
lstrip(s) == IF s # <<>> /\ Head(s) \in Whitespace THEN lstrip(Tail(s)) ELSE s

RECURSIVE rstrip(_)
rstrip(s) ==
    IF s # <<>> /\ s[Len(s)] \in Whitespace THEN rstrip(SubSeq(s, 1, Len(s) - 1)) ELSE s

\* str.strip()
strip(s) == rstrip(lstrip(s))

\* does s start with sub
StartsWith(sub, s) == Len(sub) <= Len(s) /\ SubSeq(s, 1, Len(sub)) = sub

\* the substring test "sub in s", scanning s from the left
RECURSIVE In(_, _)
In(sub, s) ==
    IF Len(sub) > Len(s) THEN FALSE
    ELSE IF StartsWith(sub, s) THEN TRUE
    ELSE In(sub, Tail(s))

\* str(n) of a non-negative integer
RECURSIVE IntToStr(_)
IntToStr(n) ==
    IF n < 10 THEN <<Digits[n + 1]>>
    ELSE IntToStr(n \div 10) \o <<Digits[(n % 10) + 1]>>

(***************************************************************************)
(* Cells.                                                                  *)
(***************************************************************************)
NaN == [kind |-> "nan", str |-> <<>>, num |-> 0]
Str(s) == [kind |-> "str", str |-> s, num |-> 0]
IntCell(n) == [kind |-> "int", str |-> <<>>, num |-> n]

\* pd.isna(x) of a scalar
pd_isna(x) == x.kind = "nan"
\* x == s, for a str s
eq_str(x, s) == x.kind = "str" /\ x.str = s
\* str(x)
py_str(x) ==
    CASE x.kind = "str" -> x.str
      [] x.kind = "int" -> IntToStr(x.num)
      [] OTHER -> <<"n","a","n">>

sSafe == <<"s","a","f","e">>
sUnsafe == <<"u","n","s","a","f","e">>
sTotal == <<"t","o","t","a","l">>
sCategory == <<"c","a","t","e","g","o","r","y">>
sEmpty == <<>>
\* the literal list of line 18
UnsafeLiterals ==
    { <<"0">>,
      <<"1"," ","(","u","n","s","a","f","e",")">>,
      <<"0"," ","(","u","n","s","a","f","e",")">>,
      <<"u","n","s","a","f","e"," ","(","0",")">>,
      <<"u","n","s","a","f","e"," ","(","1",")">> }

(***************************************************************************)
(* normalize_label, lines 5-21.                                            *)
(***************************************************************************)
\* a slip: both return values exchanged
normalize_label_swapped(x) ==
    IF pd_isna(x) \/ eq_str(x, sEmpty) THEN x
    ELSE LET label_str == strip(lower(py_str(x))) IN
         IF In(sSafe, label_str) /\ ~In(sUnsafe, label_str) THEN Str(sUnsafe)
         ELSE IF In(sUnsafe, label_str) \/ label_str \in UnsafeLiterals THEN Str(sSafe)
         ELSE Str(label_str)

\* a slip: the test for 'unsafe' left out of line 14
normalize_label_safe_first(x) ==
    IF pd_isna(x) \/ eq_str(x, sEmpty) THEN x
    ELSE LET label_str == strip(lower(py_str(x))) IN
         IF In(sSafe, label_str) THEN Str(sSafe)
         ELSE IF In(sUnsafe, label_str) \/ label_str \in UnsafeLiterals THEN Str(sUnsafe)
         ELSE Str(label_str)

normalize_label(x) ==
    IF pd_isna(x) \/ eq_str(x, sEmpty) THEN x
    ELSE LET label_str == strip(lower(py_str(x))) IN
         IF In(sSafe, label_str) /\ ~In(sUnsafe, label_str) THEN Str(sSafe)
         ELSE IF In(sUnsafe, label_str) \/ label_str \in UnsafeLiterals THEN Str(sUnsafe)
         ELSE Str(label_str)

(***************************************************************************)
(* The values normalize_label is called on when it is checked on its own.  *)
(***************************************************************************)
Alphabet == {"s", "a", "f", "e", "u", "S", " "}
ShortTexts == UNION { [1..n -> Alphabet] : n \in 0..MaxLen }
Pads == UNION { [1..n -> Alphabet] : n \in 0..1 }
Cores ==
    { <<"u","n","s","a","f","e">>,
      <<"U","N","S","A","F","E">>,
      <<"U","n","s","a","f","e">>,
      <<"S","a","f","e">>,
      <<"\t","S","A","F","E","\n">>,
      <<"n","o","t"," ","s","a","f","e">>,
      <<"s","a","f","e"," ","u","n","s","a","f","e">>,
      <<"u","n","s","a","f">>,
      <<"s","a"," ","f","e">>,
      <<"b","e","n","i","g","n">>,
      <<"B","e","n","i","g","n">>,
      <<"0">>,
      <<"1">>,
      <<"0",".","0">>,
      <<"1"," ","(","u","n","s","a","f","e",")">>,
      <<"0"," ","(","U","N","S","A","F","E",")">>,
      <<"u","n","s","a","f","e"," ","(","0",")">>,
      <<"u","n","s","a","f","e"," ","(","1",")">> }
PaddedTexts == { a \o c \o b : a \in Pads, c \in Cores, b \in Pads }
NormInputs ==
    {NaN} \cup { IntCell(n) : n \in 0..MaxInt }
          \cup { Str(s) : s \in ShortTexts \cup PaddedTexts }

(***************************************************************************)
(* Frames.  A frame is [columns, rows]: the column names in order and the  *)
(* rows, each a sequence of cells aligned with the columns.  A row of the  *)
(* working frame df is [idx, cells], idx its index label, and after line   *)
(* 54 also carries normalized_pred and normalized_truth.                   *)
(***************************************************************************)
HasColumn(columns, name) == \E i \in 1..Len(columns) : columns[i] = name

\* the position of the column df[name] selects
ColIndex(columns, name) ==
    CHOOSE i \in 1..Len(columns) :
        columns[i] = name /\ \A j \in 1..(i - 1) : columns[j] # name

\* lines 39-40 counted on the rows left by the category filter (a slip: counting
\* after line 48 instead of before)
count_empty_cells_filtered(frame, p, t) ==
    LET cats == SelectSeq(frame.columns, LAMBDA col : In(sCategory, lower(col)))
        rows == IF lower(category_name) = sTotal \/ cats = <<>>
                  THEN frame.rows
                  ELSE LET k == ColIndex(frame.columns, Head(cats)) IN
                       SelectSeq(frame.rows, LAMBDA r :
                           r[k].kind = "str" /\ lower(r[k].str) = lower(category_name))
        i == ColIndex(frame.columns, p)
        j == ColIndex(frame.columns, t)
    IN  Len(SelectSeq(rows, LAMBDA r : pd_isna(r[i])))
          + Len(SelectSeq(rows, LAMBDA r : pd_isna(r[j])))
          + Len(SelectSeq(rows, LAMBDA r : eq_str(r[i], sEmpty)))
          + Len(SelectSeq(rows, LAMBDA r : eq_str(r[j], sEmpty)))

\* lines 39-40: df[[p, t]].isna().sum().sum() + (df[p] == '').sum() + (df[t] == '').sum()
count_empty_cells(frame, p, t) ==
    LET i == ColIndex(frame.columns, p)
        j == ColIndex(frame.columns, t)
    IN  Len(SelectSeq(frame.rows, LAMBDA r : pd_isna(r[i])))
          + Len(SelectSeq(frame.rows, LAMBDA r : pd_isna(r[j])))
          + Len(SelectSeq(frame.rows, LAMBDA r : eq_str(r[i], sEmpty)))
          + Len(SelectSeq(frame.rows, LAMBDA r : eq_str(r[j], sEmpty)))

\* line 43: the columns whose lower-cased name contains 'category', in order
category_columns_of(columns) ==
    SelectSeq(columns, LAMBDA col : In(sCategory, lower(col)))

\* line 48, Series.str: pandas refuses the accessor ("Can only use .str accessor
\* with string values!") on a column that read_csv typed as numeric, which is every
\* column with at least one row and no text in it
str_accessor_ok(rows, k) ==
    rows = <<>> \/ \E i \in 1..Len(rows) : rows[i].cells[k].kind = "str"

\* line 48: one entry of df[category_col].str.lower() == category_name.lower();
\* a missing cell stays missing under .str.lower() and compares unequal
category_matches(cell, name) ==
    cell.kind = "str" /\ lower(cell.str) = lower(name)

\* line 57 alone (a slip: line 58 left out)
drop_incomplete_nan_only(rows) ==
    SelectSeq(rows, LAMBDA r : ~pd_isna(r.normalized_pred) /\ ~pd_isna(r.normalized_truth))

\* lines 57-58: dropna on the two normalized columns, then both != ''
drop_incomplete(rows) ==
    LET notna == SelectSeq(rows, LAMBDA r :
                     ~pd_isna(r.normalized_pred) /\ ~pd_isna(r.normalized_truth))
    IN  SelectSeq(notna, LAMBDA r :
            ~eq_str(r.normalized_pred, sEmpty) /\ ~eq_str(r.normalized_truth, sEmpty))

\* a slip: "|" written for "&" in lines 63-66
count_pairs_either(rows, p, t) ==
    Len(SelectSeq(rows, LAMBDA r : eq_str(r.normalized_pred, p) \/ eq_str(r.normalized_truth, t)))

\* lines 63-66: sum((df['normalized_pred'] == p) & (df['normalized_truth'] == t))
count_pairs(rows, p, t) ==
    Len(SelectSeq(rows, LAMBDA r : eq_str(r.normalized_pred, p) /\ eq_str(r.normalized_truth, t)))

(***************************************************************************)
(* Metrics: "N/A" or a number of thousandths.                              *)
(***************************************************************************)
NA == [na |-> TRUE, milli |-> 0]
Num(m) == [na |-> FALSE, milli |-> m]
\* isinstance(x, str)
is_str(x) == x.na

\* round(num / den, 3) in thousandths, den > 0: the nearest thousandth, an exact
\* half going to the even neighbour
round3(num, den) ==
    LET q == (1000 * num) \div den
        r == (1000 * num) % den
    IN  IF 2 * r < den THEN q
        ELSE IF 2 * r > den THEN q + 1
        ELSE IF q % 2 = 0 THEN q ELSE q + 1

\* line 72
accuracy_of(tp, tn, fp, fn) ==
    IF tp + tn + fp + fn > 0 THEN Num(round3(tp + tn, tp + tn + fp + fn)) ELSE NA
\* line 75
ppv_of(tp, tn, fp, fn) ==
    IF tp + fp > 0 THEN Num(round3(tp, tp + fp)) ELSE NA
\* a slip: the false positives taken for the false negatives
npv_of_fp(tp, tn, fp, fn) ==
    IF tn + fp > 0 THEN Num(round3(tn, tn + fp)) ELSE NA
\* line 78
npv_of(tp, tn, fp, fn) ==
    IF tn + fn > 0 THEN Num(round3(tn, tn + fn)) ELSE NA
\* line 81
recall_of(tp, tn, fp, fn) ==
    IF tp + fn > 0 THEN Num(round3(tp, tp + fn)) ELSE NA
\* a slip: the factor 2 left out of line 87
f1_of_halved(p, r) ==
    IF is_str(p) \/ is_str(r) \/ p.milli = 0 \/ r.milli = 0
      THEN NA
      ELSE Num(round3(p.milli * r.milli, 1000 * (p.milli + r.milli)))
\* lines 84-87, on the rounded ppv and recall
f1_of(p, r) ==
    IF is_str(p) \/ is_str(r) \/ p.milli = 0 \/ r.milli = 0
      THEN NA
      ELSE Num(round3(2 * (p.milli * r.milli), 1000 * (p.milli + r.milli)))

(***************************************************************************)
(* The frames and arguments evaluate_model is run on.                      *)
(***************************************************************************)
cPred == <<"p","r","e","d">>
cTruth == <<"g","t">>
cAbsent == <<"x">>
cCat == <<"C","a","t","e","g","o","r","y">>
cSubCat == <<"S","u","b","_","C","A","T","E","G","O","R","Y">>
cLowCat == <<"c","a","t","e","g","o","r","y">>

PlainColumns == <<cPred, cTruth>>
OneCatColumns == <<cCat, cPred, cTruth>>
TwoCatColumns == <<cPred, cSubCat, cTruth, cLowCat>>

tUnsafe == Str(<<"u","n","s","a","f","e">>)
tSafe == Str(<<"s","a","f","e">>)
\* (prediction, truth) of one row
rowTP == <<tUnsafe, Str(<<"U","N","S","A","F","E">>)>>
rowTN == <<tSafe, Str(<<"S","a","f","e"," ">>)>>
rowFP == <<Str(<<" ","U","n","s","a","f","e">>), tSafe>>
rowFN == <<tSafe, Str(<<"0">>)>>
rowNaN == <<NaN, tSafe>>
rowEmpty == <<Str(sEmpty), tUnsafe>>
rowBlank == <<Str(<<" ">>), NaN>>
rowOther == <<Str(<<"o","k">>), tUnsafe>>
PairKinds == {rowTP, rowTN, rowFP, rowFN, rowNaN, rowEmpty, rowBlank, rowOther}
\* the kinds used in the frames that also carry category columns
OneCatPairKinds == {rowTP, rowFP, rowNaN, rowEmpty, rowOther}
TwoCatPairKinds == {rowTP, rowFN, rowNaN}
CatA == Str(<<"a">>)
CatB == Str(<<"B">>)
CatKinds == {CatA, CatB, NaN}
OtherCat(c) == IF c = CatA THEN CatB ELSE CatA

RowsOf(columns) ==
    IF columns = PlainColumns THEN { <<p[1], p[2]>> : p \in PairKinds }
    ELSE IF columns = OneCatColumns
      THEN { <<c, p[1], p[2]>> : c \in CatKinds, p \in OneCatPairKinds }
    ELSE { <<p[1], c, p[2], OtherCat(c)>> : c \in CatKinds, p \in TwoCatPairKinds }

SeqsUpTo(S, n) == UNION { [1..k -> S] : k \in 0..n }
Repeat(row, n) == [i \in 1..n |-> row]

\* every frame of up to MaxRows rows
SmallFrames ==
    UNION { { [columns |-> cols, rows |-> rs] : rs \in SeqsUpTo(RowsOf(cols), MaxRows) }
            : cols \in {PlainColumns, OneCatColumns, TwoCatColumns} }
\* frames of recognised labels only, up to MaxCount rows of each of the four kinds
CountFrames ==
    { [columns |-> PlainColumns,
       rows |-> Repeat(<<tUnsafe, tUnsafe>>, a) \o Repeat(<<tSafe, tSafe>>, b)
                  \o Repeat(<<tUnsafe, tSafe>>, c) \o Repeat(<<tSafe, tUnsafe>>, d)]
      : a \in 0..MaxCount, b \in 0..MaxCount, c \in 0..MaxCount, d \in 0..MaxCount }
Frames == SmallFrames \cup CountFrames

CategoryNames == { <<"T","o","t","a","l">>, <<"A">>, <<"c">> }
ColumnArgs == { <<cPred, cTruth>>, <<cPred, cPred>>, <<cAbsent, cTruth>>, <<cPred, cAbsent>> }

(***************************************************************************)
(* Initial states.                                                         *)
(***************************************************************************)
NormIdle == label = NaN /\ ret = NaN /\ ret2 = NaN /\ npc = "idle"

LocalsUnset ==
    /\ df = <<>>
    /\ empty_cells = 0
    /\ original_count = 0 /\ filtered_count = 0 /\ rows_removed = 0
    /\ true_positives = 0 /\ true_negatives = 0
    /\ false_positives = 0 /\ false_negatives = 0 /\ total = 0
    /\ accuracy = NA /\ ppv = NA /\ npv = NA /\ recall = NA /\ f1_score = NA
    /\ results = [pending |-> TRUE]

Init ==
    /\ NormIdle
    /\ csv \in Frames
    /\ category_name \in CategoryNames
    /\ \E a \in ColumnArgs : prediction_column = a[1] /\ truth_column = a[2]
    /\ pc = "start"
    /\ LocalsUnset

InitNorm ==
    /\ label \in NormInputs
    /\ ret = NaN /\ ret2 = NaN /\ npc = "call"
    /\ csv = [columns |-> PlainColumns, rows |-> <<>>]
    /\ category_name = sTotal
    /\ prediction_column = cPred /\ truth_column = cTruth
    /\ pc = "idle"
    /\ LocalsUnset

(***************************************************************************)
(* normalize_label called on a value, and again on what it returned.       *)
(***************************************************************************)
CallNormalize ==
    /\ npc = "call"
    /\ ret' = normalize_label(label)
    /\ npc' = "returned"
    /\ UNCHANGED <<label, ret2, evalVars>>

Renormalize ==
    /\ npc = "returned"
    /\ ret2' = normalize_label(ret)
    /\ npc' = "again"
    /\ UNCHANGED <<label, ret, evalVars>>

(***************************************************************************)
(* evaluate_model, lines 23-113, one action per stage of the pipeline.     *)
(***************************************************************************)
\* the dict of lines 45, 51 and 113
Error(msg) == [error |-> msg]

\* a slip: lines 39-40 left out, so that nothing looks the two columns up before
\* the category filter
ReadCsv_unchecked ==
    /\ pc = "start"
    /\ df' = [i \in 1..Len(csv.rows) |-> [idx |-> i, cells |-> csv.rows[i]]]
    /\ pc' = "filter"
    /\ UNCHANGED <<normVars, inVars, empty_cells, countVars, tallyVars, metricVars, results>>

\* lines 35-40; a missing column makes df[[...]] raise KeyError, caught at line 112
ReadCsv ==
    /\ pc = "start"
    /\ df' = [i \in 1..Len(csv.rows) |-> [idx |-> i, cells |-> csv.rows[i]]]
    /\ IF ~HasColumn(csv.columns, prediction_column) \/ ~HasColumn(csv.columns, truth_column)
         THEN /\ results' = Error("KeyError")
              /\ pc' = "done"
              /\ UNCHANGED empty_cells
         ELSE /\ empty_cells' = count_empty_cells(csv, prediction_column, truth_column)
              /\ pc' = "filter"
              /\ UNCHANGED results
    /\ UNCHANGED <<normVars, inVars, countVars, tallyVars, metricVars>>

\* lines 42-51
CategoryFilter ==
    /\ pc = "filter"
    /\ IF lower(category_name) = sTotal
         THEN pc' = "normalize" /\ UNCHANGED <<df, results>>
         ELSE LET category_columns == category_columns_of(csv.columns) IN
              IF category_columns = <<>>
                THEN /\ results' = Error("Category column not found.")
                     /\ pc' = "done"
                     /\ UNCHANGED df
                ELSE LET category_col == category_columns[1]
                         k == ColIndex(csv.columns, category_col)
                         kept == SelectSeq(df, LAMBDA r :
                                     category_matches(r.cells[k], category_name))
                     IN  IF ~str_accessor_ok(df, k)
                           THEN /\ results' = Error("Can only use .str accessor with string values!")
                                /\ pc' = "done"
                                /\ UNCHANGED df
                           ELSE /\ df' = kept
                                /\ IF kept = <<>>
                                     THEN /\ results' = Error("No data found for category")
                                          /\ pc' = "done"
                                     ELSE /\ pc' = "normalize"
                                          /\ UNCHANGED results
    /\ UNCHANGED <<normVars, inVars, empty_cells, countVars, tallyVars, metricVars>>

\* lines 53-54; df[prediction_column] raises KeyError on a missing column
Normalize ==
    /\ pc = "normalize"
    /\ IF ~HasColumn(csv.columns, prediction_column) \/ ~HasColumn(csv.columns, truth_column)
         THEN /\ results' = Error("KeyError")
              /\ pc' = "done"
              /\ UNCHANGED df
         ELSE /\ LET i == ColIndex(csv.columns, prediction_column)
                     j == ColIndex(csv.columns, truth_column)
                 IN  df' = [n \in 1..Len(df) |->
                              [idx |-> df[n].idx, cells |-> df[n].cells,
                               normalized_pred |-> normalize_label(df[n].cells[i]),
                               normalized_truth |-> normalize_label(df[n].cells[j])]]
              /\ pc' = "drop"
              /\ UNCHANGED results
    /\ UNCHANGED <<normVars, inVars, empty_cells, countVars, tallyVars, metricVars>>

\* lines 56-60
DropIncomplete ==
    /\ pc = "drop"
    /\ original_count' = Len(df)
    /\ df' = drop_incomplete(df)
    /\ filtered_count' = Len(df')
    /\ rows_removed' = original_count' - filtered_count'
    /\ pc' = "tally"
    /\ UNCHANGED <<normVars, inVars, empty_cells, tallyVars, metricVars, results>>

\* lines 63-69
Tally ==
    /\ pc = "tally"
    /\ true_positives' = count_pairs(df, sUnsafe, sUnsafe)
    /\ true_negatives' = count_pairs(df, sSafe, sSafe)
    /\ false_positives' = count_pairs(df, sUnsafe, sSafe)
    /\ false_negatives' = count_pairs(df, sSafe, sUnsafe)
    /\ total' = true_positives' + true_negatives' + false_positives' + false_negatives'
    /\ pc' = "metrics"
    /\ UNCHANGED <<normVars, inVars, df, empty_cells, countVars, metricVars, results>>

\* lines 72-87
Metrics ==
    /\ pc = "metrics"
    /\ accuracy' = accuracy_of(true_positives, true_negatives, false_positives, false_negatives)
    /\ ppv' = ppv_of(true_positives, true_negatives, false_positives, false_negatives)
    /\ npv' = npv_of(true_positives, true_negatives, false_positives, false_negatives)
    /\ recall' = recall_of(true_positives, true_negatives, false_positives, false_negatives)
    /\ f1_score' = f1_of(ppv', recall')
    /\ pc' = "return"
    /\ UNCHANGED <<normVars, inVars, df, empty_cells, countVars, tallyVars, results>>

\* lines 90-110
Return ==
    /\ pc = "return"
    /\ results' = [category |-> category_name,
                   columns |-> csv.columns,
                   total_samples |-> total,
                   empty_cells |-> empty_cells,
                   rows_removed |-> rows_removed,
                   accuracy |-> accuracy,
                   confusion_matrix |-> [TP |-> true_positives, FN |-> false_negatives,
                                         FP |-> false_positives, TN |-> true_negatives],
                   precision_ppv |-> ppv,
                   npv |-> npv,
                   recall |-> recall,
                   f1_score |-> f1_score]
    /\ pc' = "done"
    /\ UNCHANGED <<normVars, inVars, df, empty_cells, countVars, tallyVars, metricVars>>

Next ==
    \/ ReadCsv
    \/ CategoryFilter
    \/ Normalize
    \/ DropIncomplete
    \/ Tally
    \/ Metrics
    \/ Return

Spec == Init /\ [][Next]_vars

NextNorm == CallNormalize \/ Renormalize

SpecNorm == InitNorm /\ [][NextNorm]_vars

\* the call returned a result record (print_results tests "error" in results)
Succeeded == pc = "done" /\ "error" \notin DOMAIN results
Failed == pc = "done" /\ "error" \in DOMAIN results

(***************************************************************************)
(* Vocabulary of the claims, defined without the operators of the model:   *)
(* substring by position, trimming by the first and last non-blank index,  *)
(* rounding by distance.                                                   *)
(***************************************************************************)
Contains(sub, s) ==
    \E i \in 0..(Len(s) - Len(sub)) : SubSeq(s, i + 1, i + Len(sub)) = sub

Trimmed(s) ==
    LET solid == { i \in 1..Len(s) : s[i] \notin Whitespace } IN
    IF solid = {} THEN <<>>
    ELSE SubSeq(s, CHOOSE i \in solid : \A j \in solid : i <= j,
                   CHOOSE i \in solid : \A j \in solid : j <= i)

IsMissing(x) == x = NaN \/ x = Str(<<>>)
IsSafe(x) == x = Str(<<"s","a","f","e">>)
IsUnsafe(x) == x = Str(<<"u","n","s","a","f","e">>)
IsOther(x) == ~IsMissing(x) /\ ~IsSafe(x) /\ ~IsUnsafe(x)

Abs(n) == IF n < 0 THEN -n ELSE n
\* m thousandths is num/den rounded to 3 decimals
Rounds(m, num, den) == 2 * Abs(1000 * num - m * den) <= den
\* metric x is N/A when den = 0 and num/den rounded to 3 decimals otherwise
GuardedRatio(x, num, den) ==
    IF den = 0 THEN x.na ELSE ~x.na /\ Rounds(x.milli, num, den)

Filtering == lower(category_name) # <<"t","o","t","a","l">>
BothColumnsExist ==
    HasColumn(csv.columns, prediction_column) /\ HasColumn(csv.columns, truth_column)
CategoryCols == { i \in 1..Len(csv.columns) : Contains(sCategory, lower(csv.columns[i])) }
FirstCategoryCol == CHOOSE i \in CategoryCols : \A j \in CategoryCols : i <= j
\* the rows whose value in the first category column equals the name ignoring case
MatchingRows ==
    { i \in 1..Len(csv.rows) :
        LET c == csv.rows[i][FirstCategoryCol] IN
        c.kind = "str" /\ lower(c.str) = lower(category_name) }
\* the rows left by the category filter
SelectedRows == IF Filtering THEN MatchingRows ELSE 1..Len(csv.rows)
PredCell(i) == csv.rows[i][ColIndex(csv.columns, prediction_column)]
TruthCell(i) == csv.rows[i][ColIndex(csv.columns, truth_column)]
\* the index labels of the rows of df
Idx(rows) == { rows[n].idx : n \in 1..Len(rows) }
ErrorIs(msg) == Failed /\ results.error = msg
Tallied == pc \in {"metrics", "return"} \/ Succeeded
Dropped == pc \in {"tally", "metrics", "return"} \/ Succeeded

(***************************************************************************)
(* Claims about normalize_label, checked under SpecNorm.                   *)
(***************************************************************************)
\* C1: normalize returns a value for every cell; a missing value or the empty
\* string comes back as it is (Missing); otherwise, with s the lower-cased, trimmed
\* text, the result is 'safe' exactly when s contains "safe" and not "unsafe", else
\* 'unsafe' exactly when s contains "unsafe" or is one of the five literals, else s
\* itself.  The examples of the specification are part of the statement.
C1_NormalizeClassifies ==
    npc \in {"returned", "again"} =>
        LET s == Trimmed(lower(py_str(label)))
            safe == Contains(<<"s","a","f","e">>, s) /\ ~Contains(<<"u","n","s","a","f","e">>, s)
            unsafe == ~safe /\ (Contains(<<"u","n","s","a","f","e">>, s) \/ s \in UnsafeLiterals)
        IN  /\ IsMissing(label) => ret = label
            /\ ~IsMissing(label) =>
                 /\ IsSafe(ret) <=> safe
                 /\ IsUnsafe(ret) <=> unsafe
                 /\ (~safe /\ ~unsafe) => ret = Str(s)
            /\ label = Str(<<"S","a","f","e">>) => IsSafe(ret)
            /\ label = Str(<<"U","N","S","A","F","E">>) => IsUnsafe(ret)
            /\ label \in {Str(<<"0">>), IntCell(0)} => IsUnsafe(ret)
            /\ label = Str(<<"b","e","n","i","g","n">>) => ret = label
            /\ label = Str(<<" ","B","e","n","i","g","n"," ">>) => ret = Str(<<"b","e","n","i","g","n">>)
            /\ label = IntCell(10) => ret = Str(<<"1","0">>)

\* C1 witness: an upper-case, padded text containing "unsafe" was classified
C1_Witness ==
    /\ npc = "returned"
    /\ label = Str(<<" ","U","N","S","A","F","E"," ">>)
    /\ ret = Str(<<"u","n","s","a","f","e">>)

\* C10: when normalize(x) is 'safe' or 'unsafe', normalizing that canonical string
\* gives the same label again
C10_IdempotentOnCanonical ==
    (npc = "again" /\ (IsSafe(ret) \/ IsUnsafe(ret))) => ret2 = ret

\* C10 witness: a text that is not canonical itself was normalized twice
C10_Witness ==
    /\ npc = "again"
    /\ label = Str(<<"n","o","t"," ","s","a","f","e">>)
    /\ ret = Str(<<"s","a","f","e">>)
    /\ ret2 = ret

(***************************************************************************)
(* Claims about evaluate_model, checked under Spec.                        *)
(***************************************************************************)
\* C2: once the tally is made, TP, TN, FP and FN are the numbers of surviving rows
\* with (pred, truth) = (unsafe, unsafe), (safe, safe), (unsafe, safe) and
\* (safe, unsafe), a row with an Other label is in none of them, and so their sum is
\* filteredCount minus the number of surviving rows with an Other label
C2_TallyPartitionsSurvivors ==
    Tallied =>
        LET rows == 1..Len(df)
            P(n) == df[n].normalized_pred
            T(n) == df[n].normalized_truth
            other == { n \in rows : IsOther(P(n)) \/ IsOther(T(n)) }
        IN  /\ true_positives = Cardinality({ n \in rows : IsUnsafe(P(n)) /\ IsUnsafe(T(n)) })
            /\ true_negatives = Cardinality({ n \in rows : IsSafe(P(n)) /\ IsSafe(T(n)) })
            /\ false_positives = Cardinality({ n \in rows : IsUnsafe(P(n)) /\ IsSafe(T(n)) })
            /\ false_negatives = Cardinality({ n \in rows : IsSafe(P(n)) /\ IsUnsafe(T(n)) })
            /\ true_positives + true_negatives + false_positives + false_negatives
                 = filtered_count - Cardinality(other)
            /\ total = true_positives + true_negatives + false_positives + false_negatives
            /\ Succeeded =>
                 results.confusion_matrix =
                     [TP |-> true_positives, FN |-> false_negatives,
                      FP |-> false_positives, TN |-> true_negatives]

\* C2 witness: a row with an Other label survived beside a counted row
C2_Witness ==
    /\ Succeeded
    /\ filtered_count = 2
    /\ total = 1
    /\ \E n \in 1..Len(df) : IsOther(df[n].normalized_pred)

\* C3: in a result record accuracy, precision, npv and recall are each N/A exactly
\* when their own denominator is 0 and otherwise the ratio rounded to 3 decimals;
\* TP = TN = FP = FN = 1 gives 0.5 for all four
C3_MetricsGuarded ==
    Succeeded =>
        LET m == results.confusion_matrix IN
        /\ GuardedRatio(results.accuracy, m.TP + m.TN, m.TP + m.TN + m.FP + m.FN)
        /\ GuardedRatio(results.precision_ppv, m.TP, m.TP + m.FP)
        /\ GuardedRatio(results.npv, m.TN, m.TN + m.FN)
        /\ GuardedRatio(results.recall, m.TP, m.TP + m.FN)
        /\ (m.TP = 1 /\ m.TN = 1 /\ m.FP = 1 /\ m.FN = 1) =>
             /\ results.accuracy = Num(500) /\ results.precision_ppv = Num(500)
             /\ results.npv = Num(500) /\ results.recall = Num(500)

\* C3 witness: precision is N/A while recall and npv are numbers that need rounding
C3_Witness ==
    /\ Succeeded
    /\ results.confusion_matrix = [TP |-> 0, FN |-> 1, FP |-> 0, TN |-> 2]
    /\ results.precision_ppv = NA
    /\ results.recall = Num(0)
    /\ results.npv = Num(667)
    /\ results.accuracy = Num(667)

\* C4: in a result record f1 is a number exactly when precision and recall are both
\* numbers and both nonzero, and it is then 2*precision*recall/(precision+recall) of
\* the reported precision and recall, rounded to 3 decimals
C4_F1Guarded ==
    Succeeded =>
        LET p == results.precision_ppv
            r == results.recall
            f == results.f1_score
        IN  /\ ~f.na <=> (~p.na /\ ~r.na /\ p.milli # 0 /\ r.milli # 0)
            /\ ~f.na => Rounds(f.milli, 2 * p.milli * r.milli, 1000 * (p.milli + r.milli))

\* C4 witness: TP = 2, FP = 1, FN = 2: the reported precision 0.667 and recall 0.5
\* give f1 0.572 (from the unrounded 2/3 and 1/2 it would be 0.571)
C4_Witness ==
    /\ Succeeded
    /\ results.confusion_matrix = [TP |-> 2, FN |-> 2, FP |-> 1, TN |-> 0]
    /\ results.precision_ppv = Num(667)
    /\ results.recall = Num(500)
    /\ results.f1_score = Num(572)

\* C5: when the prediction or the truth column is not in the table the call ends
\* in the error of the failed column lookup, with no result record, before the
\* category filter or any row processing, whatever the category filter is
C5_MissingColumnFailsFirst ==
    ~BothColumnsExist =>
        /\ pc \in {"start", "done"}
        /\ pc = "done" =>
             /\ ErrorIs("KeyError")
             /\ Len(df) = Len(csv.rows)
             /\ \A n \in 1..Len(df) : df[n] = [idx |-> n, cells |-> csv.rows[n]]

\* C5 witness: a named filter that matches no row, on a table without the
\* prediction column, ended in the column error
C5_Witness ==
    /\ pc = "done"
    /\ ~HasColumn(csv.columns, prediction_column)
    /\ Filtering
    /\ CategoryCols # {}
    /\ Len(csv.rows) > 0
    /\ MatchingRows = {}
    /\ results = Error("KeyError")

\* C6 as claimed: with both columns present, a Named filter fails with
\* CategoryColumnNotFound exactly when no column name contains "category", with
\* CategoryNotFound exactly when there is one but no row matches the name, and
\* otherwise evaluates exactly the matching rows; "total" in any case filters nothing
C6_CategoryFilterAsClaimed ==
    (pc = "done" /\ BothColumnsExist) =>
        /\ ErrorIs("Category column not found.") <=> (Filtering /\ CategoryCols = {})
        /\ ErrorIs("No data found for category")
             <=> (Filtering /\ CategoryCols # {} /\ MatchingRows = {})
        /\ (Filtering /\ CategoryCols # {} /\ MatchingRows # {}) =>
             Succeeded /\ original_count = Cardinality(MatchingRows)
        /\ ~Filtering => Succeeded /\ original_count = Len(csv.rows)

\* C6 on tables with no category column, with no rows, or whose first category
\* column holds text in at least one row: there the claim holds of the code
C6_HoldsOnTextCategories ==
    (\/ CategoryCols = {}
     \/ csv.rows = <<>>
     \/ \E i \in 1..Len(csv.rows) : csv.rows[i][FirstCategoryCol].kind = "str")
        => C6_CategoryFilterAsClaimed

\* C7: after the drop the surviving rows are exactly the rows left by the category
\* filter whose normalized prediction and truth are both neither Missing nor empty
\* (a non-empty Other label does not drop a row), rowsRemoved = originalCount -
\* filteredCount with originalCount the row count after the category filter; and
\* when every row has an empty prediction, filteredCount = 0, total = 0,
\* rowsRemoved = originalCount and all five metrics are N/A
C7_DropsExactlyIncompleteRows ==
    Dropped =>
        LET complete == { i \in SelectedRows :
                            /\ ~IsMissing(normalize_label(PredCell(i)))
                            /\ ~IsMissing(normalize_label(TruthCell(i))) }
        IN  /\ Idx(df) = complete
            /\ Len(df) = Cardinality(complete)
            /\ original_count = Cardinality(SelectedRows)
            /\ filtered_count = Cardinality(complete)
            /\ rows_removed = original_count - filtered_count
            /\ Succeeded =>
                 /\ results.rows_removed = rows_removed
                 /\ (\A i \in 1..Len(csv.rows) : PredCell(i) = Str(<<>>)) =>
                      /\ filtered_count = 0 /\ results.total_samples = 0
                      /\ results.rows_removed = original_count
                      /\ results.accuracy = NA /\ results.precision_ppv = NA
                      /\ results.npv = NA /\ results.recall = NA /\ results.f1_score = NA

\* C7 witness: of two rows one had an empty prediction and was dropped, the other
\* had an Other prediction and stayed
C7_Witness ==
    /\ Succeeded
    /\ Len(csv.rows) = 2
    /\ PredCell(1) = Str(<<>>)
    /\ IsOther(normalize_label(PredCell(2)))
    /\ Idx(df) = {2}
    /\ results.rows_removed = 1

\* C8 as claimed: the sample count of a result record is filteredCount
C8_SampleCountIsFilteredCount ==
    Succeeded => results.total_samples = filtered_count

\* C9: emptyCells of a result record is the number of cells of the prediction
\* column plus the number of cells of the truth column that are missing or the empty
\* string, over all rows of the table as read, whatever the category filter
C9_EmptyCellsOverWholeTable ==
    Succeeded =>
        results.empty_cells =
            Cardinality({ i \in 1..Len(csv.rows) : PredCell(i) = NaN \/ PredCell(i) = Str(<<>>) })
          + Cardinality({ i \in 1..Len(csv.rows) : TruthCell(i) = NaN \/ TruthCell(i) = Str(<<>>) })

\* C9 witness: a named filter kept one row of two, and the empty cell counted was
\* in the row filtered out
C9_Witness ==
    /\ Succeeded
    /\ Filtering
    /\ Len(csv.rows) = 2
    /\ original_count = 1
    /\ rows_removed = 0
    /\ results.empty_cells = 1

====
